---- MODULE Spec2Model ----
(***************************************************************************)
(* Authentication / session-token subsystem of node-ts-boilerplate:        *)
(* the Token Codec (src/utils/jwt.ts), the Auth Service                    *)
(* (src/controllers/authController.ts) and the two tables it works on,     *)
(* users (Credential Store) and refresh_tokens (Refresh Token Ledger).     *)
(*                                                                         *)
(* Every handler is an async function: the code between two awaits runs    *)
(* without interruption, and every await of a storage call is a point      *)
(* where other requests run.  One action of the model is one storage call  *)
(* together with the synchronous code that follows it up to the next       *)
(* await (or the response).  bcrypt.hash and bcrypt.compare touch no       *)
(* shared state and are folded into the step that precedes them.  Body     *)
(* validation (schemas/authSchemas.ts, middleware/validation.ts) runs in    *)
(* the step that accepts the request.                                      *)
(*                                                                         *)
(* The functions of the Token Codec and the middleware of                  *)
(* middleware/auth.ts touch no shared state; CodecSpec and MiddlewareSpec   *)
(* apply them to sample inputs on their own.                               *)
(***************************************************************************)
EXTENDS Integers, Sequences, FiniteSets, TLC

VARIABLES
    now,          \* the wall clock (Date.now()), in ticks
    users,        \* table users: set of rows
    nextUserId,   \* serial of users.id
    ledger,       \* table refresh_tokens: set of rows
    nextTokenId,  \* serial of refresh_tokens.id
    req,          \* the requests in flight, one per connection slot
    last,         \* the response sent most recently, with the history of its request
    known,        \* refresh tokens some response has handed to a client
    rotated,      \* history: token strings some refresh answered 200 for
    revoked,      \* history: token strings logged out, no issuance for the user since
    call,         \* a call of a Token Codec function under evaluation, with its result
    http,         \* a request passing through the middleware of a route
    env           \* process.env, the configuration the process was started with

vars == <<now, users, nextUserId, ledger, nextTokenId, req, last, known, rotated, revoked,
          call, http, env>>

-----------------------------------------------------------------------------
(* Bounds of the model                                                     *)

MaxTime == 2              \* the clock stops after this many ticks
TicksPerSecond == 1       \* clock ticks in one second (jwt iat/exp count seconds)
MaxUsers == 1             \* rows ever inserted into users
MaxTokens == 3            \* rows ever inserted into refresh_tokens
MaxInFlight == 2          \* requests being handled at once
RefreshSeconds == 1       \* amount of the refresh lifetime ('7d' scaled down)
AccessSeconds == 1        \* amount of the access lifetime ('15m' scaled down)

Req == 1..MaxInFlight     \* connection slots
\* strings that validation reads character by character are sequences of characters
EmailA == <<"a", "@", "x", ".", "i", "o">>
EmailB == <<"b", "@", "x", ".", "i", "o">>
EmailAUpper == <<"A", "@", "X", ".", "i", "o">>
EmailNoAt == <<"a", "x", ".", "i", "o">>
PasswordA == <<"A", "b", "c", "1", "2", "3">>
PasswordX == <<"X", "y", "z", "7", "8", "9">>
PasswordWeak == <<"a", "b", "c", "1", "2", "3">>

Emails == {EmailA, EmailB}               \* emails of login requests
Passwords == {PasswordA, PasswordX}      \* passwords of login requests
RegisterEmails == {EmailA, EmailAUpper, EmailNoAt}   \* emails of register requests
RegisterPasswords == {PasswordA, PasswordWeak}       \* passwords of register requests
\* the register bodies sent: each email with a valid password, one weak password
RegisterBodies ==
    {[email |-> e, password |-> PasswordA] : e \in RegisterEmails}
        \cup {[email |-> EmailA, password |-> PasswordWeak]}

-----------------------------------------------------------------------------
(* Token Codec                                                             *)

JWT_SECRET == "your-super-secret-jwt-key"
JWT_REFRESH_SECRET == "your-super-secret-refresh-key"

Digit == <<"0", "1", "2", "3", "4", "5", "6", "7", "8", "9">>
DigitChars == {Digit[i] : i \in 1..10}
DigitValue(c) == (CHOOSE i \in 1..10 : Digit[i] = c) - 1
Numeral(n) == <<Digit[n + 1]>>

JWT_EXPIRES_IN == Numeral(AccessSeconds) \o <<"s">>
\* '7d', scaled down: the value of a deployment that sets none
DefaultRefreshExpiresIn == Numeral(RefreshSeconds) \o <<"s">>
\* process.env.JWT_REFRESH_EXPIRES_IN || '7d', read when the module loads
JWT_REFRESH_EXPIRES_IN == env.JWT_REFRESH_EXPIRES_IN

\* The env value read by the controller at each call; the same variable as above.
EnvRefreshExpiresIn == env.JWT_REFRESH_EXPIRES_IN

\* /^(\d+)([smhd])$/
DurationMatches(expiresIn) ==
    /\ Len(expiresIn) >= 2
    /\ \A i \in 1..(Len(expiresIn) - 1) : expiresIn[i] \in DigitChars
    /\ expiresIn[Len(expiresIn)] \in {"s", "m", "h", "d"}

RECURSIVE parseInt(_)
parseInt(digits) ==
    IF digits = <<>> THEN 0
    ELSE 10 * parseInt(SubSeq(digits, 1, Len(digits) - 1)) + DigitValue(digits[Len(digits)])

\* mutant: every unit counts as seconds
UnitSecondsAllSeconds(unit) == 1

\* seconds in one unit
UnitSeconds(unit) ==
    CASE unit = "s" -> 1
      [] unit = "m" -> 60
      [] unit = "h" -> 60 * 60
      [] unit = "d" -> 24 * 60 * 60

DurationSeconds(expiresIn) ==
    parseInt(SubSeq(expiresIn, 1, Len(expiresIn) - 1)) * UnitSeconds(expiresIn[Len(expiresIn)])

\* getTokenExpirationTime: now + amount * unit (in ticks), or a throw
Throws == -1
getTokenExpirationTime(expiresIn, t) ==
    IF ~DurationMatches(expiresIn) THEN Throws
    ELSE t + DurationSeconds(expiresIn) * TicksPerSecond

\* The ms package, by which jwt.sign reads expiresIn: <digits> *<unit>?, the unit
\* in either case, weeks and years known too, milliseconds when there is none
\* (signs, fractions and the long unit names are not among the inputs here).
msUnitSeconds(unit) ==
    CASE unit \in {"s", "S"} -> 1
      [] unit \in {"m", "M"} -> 60
      [] unit \in {"h", "H"} -> 60 * 60
      [] unit \in {"d", "D"} -> 24 * 60 * 60
      [] unit \in {"w", "W"} -> 7 * 24 * 60 * 60
      [] unit \in {"y", "Y"} -> 31557600
msUnits == {"s", "S", "m", "M", "h", "H", "d", "D", "w", "W", "y", "Y"}
RECURSIVE trimEnd(_)
trimEnd(str) ==
    IF str # <<>> /\ str[Len(str)] = " " THEN trimEnd(SubSeq(str, 1, Len(str) - 1)) ELSE str
AllDigits(str) == str # <<>> /\ \A i \in 1..Len(str) : str[i] \in DigitChars
msNumber(str) ==
    IF str # <<>> /\ str[Len(str)] \in msUnits
    THEN trimEnd(SubSeq(str, 1, Len(str) - 1)) ELSE str
msMatches(str) == AllDigits(msNumber(str))
\* the time span in seconds, as jwt.sign adds it to iat
msSeconds(str) ==
    IF str[Len(str)] \in msUnits THEN parseInt(msNumber(str)) * msUnitSeconds(str[Len(str)])
    ELSE parseInt(str) \div 1000

\* jsonwebtoken's clock: Math.floor(Date.now() / 1000)
ClockSeconds(t) == t \div TicksPerSecond

\* mutant: the role is left out of the payload
signNoRole(user, secret, expiresIn, t) ==
    [kind |-> "jwt", secret |-> secret,
     userId |-> user.id, email |-> user.email, role |-> "",
     iat |-> ClockSeconds(t), exp |-> ClockSeconds(t) + DurationSeconds(expiresIn)]

\* A token string is header.payload.signature; HS256 is deterministic, so the
\* string is a function of the payload (with iat and exp) and of the secret.
\* jwt.sign throws for an expiresIn that ms cannot read.
SignThrown == [kind |-> "thrown", secret |-> "", userId |-> 0, email |-> <<>>, role |-> "",
               iat |-> 0, exp |-> 0]
sign(user, secret, expiresIn, t) ==
    IF ~msMatches(expiresIn) THEN SignThrown
    ELSE [kind |-> "jwt", secret |-> secret,
          userId |-> user.id, email |-> user.email, role |-> user.role,
          iat |-> ClockSeconds(t), exp |-> ClockSeconds(t) + msSeconds(expiresIn)]

\* mutant: the access token is signed with the refresh secret
generateAccessTokenRefreshSecret(user, t) == sign(user, JWT_REFRESH_SECRET, JWT_EXPIRES_IN, t)

generateAccessToken(user, t) == sign(user, JWT_SECRET, JWT_EXPIRES_IN, t)

generateRefreshToken(user, t) == sign(user, JWT_REFRESH_SECRET, JWT_REFRESH_EXPIRES_IN, t)

NoToken == [kind |-> "none", secret |-> "", userId |-> 0, email |-> <<>>, role |-> "",
            iat |-> 0, exp |-> 0]
\* a string that is no JWT
Garbage == [NoToken EXCEPT !.kind = "garbage"]
\* a well-formed JWT signed with a key the server does not use
Forged == [kind |-> "jwt", secret |-> "attacker-key", userId |-> 1, email |-> EmailA,
           role |-> "user", iat |-> 0, exp |-> MaxTime + 10]

NullPayload == [userId |-> 0, email |-> <<>>, role |-> "", iat |-> 0, exp |-> 0]
PayloadOf(token) == [userId |-> token.userId, email |-> token.email, role |-> token.role,
                     iat |-> token.iat, exp |-> token.exp]

\* jwt.verify: malformed, wrong signature, or clockTimestamp >= exp -> throws
jwtVerifyOk(token, secret, t) ==
    /\ token.kind = "jwt"
    /\ token.secret = secret
    /\ ClockSeconds(t) < token.exp

\* the error jwt.verify throws, as a value
Thrown == [NullPayload EXCEPT !.role = "JsonWebTokenError"]
jwtVerify(token, secret, t) ==
    IF jwtVerifyOk(token, secret, t) THEN PayloadOf(token) ELSE Thrown

\* mutant: no try/catch around jwt.verify
verifyAccessTokenNoCatch(token, t) == jwtVerify(token, JWT_SECRET, t)

\* try { return jwt.verify(token, JWT_SECRET) } catch { return null }
\* mutant: a token under either secret of the server verifies
verifyAccessTokenEitherSecret(token, t) ==
    LET result == jwtVerify(token, JWT_SECRET, t)
        other == jwtVerify(token, JWT_REFRESH_SECRET, t)
    IN  IF result # Thrown THEN result
        ELSE IF other # Thrown THEN other ELSE NullPayload

verifyAccessToken(token, t) ==
    LET result == jwtVerify(token, JWT_SECRET, t)
    IN  IF result = Thrown THEN NullPayload ELSE result

\* mutant: the payload is decoded and the signature and expiry are not looked at
verifyRefreshTokenDecodeOnly(token, t) ==
    IF token.kind = "jwt" THEN PayloadOf(token) ELSE NullPayload

verifyRefreshToken(token, t) ==
    LET result == jwtVerify(token, JWT_REFRESH_SECRET, t)
    IN  IF result = Thrown THEN NullPayload ELSE result


-----------------------------------------------------------------------------
(* Storage                                                                 *)

NoUser == [id |-> 0, email |-> <<>>, password |-> <<>>, role |-> "", isActive |-> FALSE]
NoRecord == [id |-> 0, userId |-> 0, token |-> NoToken, expiresAt |-> 0]

bcryptHash(password) == <<"bcrypt", 12, password>>
bcryptCompare(password, hash) == hash = bcryptHash(password)

\* mutant: the row is returned as it is stored
SafeUserWithPassword(user) == user

\* { password: _, ...safeUser }
SafeUser(user) == [id |-> user.id, email |-> user.email, role |-> user.role,
                   isActive |-> user.isActive]
NoSafeUser == SafeUser(NoUser)

\* select().from(users).where(eq(users.email, email)).limit(1)
UsersByEmail(email) == {u \in users : u.email = email}
\* select().from(users).where(eq(users.id, id)).limit(1)
UsersById(id) == {u \in users : u.id = id}
\* select().from(refreshTokens).where(eq(refreshTokens.token, token)).limit(1)
TokensByToken(token) == {rec \in ledger : rec.token = token}
First(S) == CHOOSE x \in S : TRUE

\* mutant: the token column has no unique constraint
TokenTakenNever(token) == FALSE

\* unique constraints of the schema (db/schema.ts)
EmailTaken(email) == \E u \in users : u.email = email
TokenTaken(token) == \E rec \in ledger : rec.token = token
\* foreign key refresh_tokens.user_id -> users.id (db/schema.ts)
OwnerMissing(userId) == ~\E u \in users : u.id = userId

-----------------------------------------------------------------------------
(* Body validation: schemas/authSchemas.ts, middleware/validation.ts       *)

Upper == <<"A", "B", "C", "D", "E", "F", "G", "H", "I", "J", "K", "L", "M",
           "N", "O", "P", "Q", "R", "S", "T", "U", "V", "W", "X", "Y", "Z">>
Lower == <<"a", "b", "c", "d", "e", "f", "g", "h", "i", "j", "k", "l", "m",
           "n", "o", "p", "q", "r", "s", "t", "u", "v", "w", "x", "y", "z">>
UpperChars == {Upper[i] : i \in 1..26}
LowerChars == {Lower[i] : i \in 1..26}
Alnum == UpperChars \cup LowerChars \cup DigitChars

\* mutant: the case of the string is left as it is
toLowerCaseNone(s) == s

\* String.prototype.toLowerCase
toLowerCaseChar(c) ==
    IF c \in UpperChars THEN Lower[CHOOSE i \in 1..26 : Upper[i] = c] ELSE c
toLowerCase(s) == [i \in 1..Len(s) |-> toLowerCaseChar(s[i])]

\* String.prototype.trim
RECURSIVE trim(_)
trim(s) ==
    IF s = <<>> THEN s
    ELSE IF Head(s) = " " THEN trim(Tail(s))
    ELSE IF s[Len(s)] = " " THEN trim(SubSeq(s, 1, Len(s) - 1))
    ELSE s

\* z.string().email(): local@label(.label)*.tld, the tld of two letters or more
LocalPartOk(l) ==
    /\ Len(l) >= 1
    /\ \A j \in 1..Len(l) : l[j] \in Alnum \cup {"_", "'", "+", "-", "."}
    /\ l[1] # "."
    /\ l[Len(l)] \in Alnum \cup {"_", "+", "-"}
    /\ \A j \in 1..(Len(l) - 1) : ~(l[j] = "." /\ l[j + 1] = ".")
DomainOk(d) ==
    \E k \in 2..(Len(d) - 2) :
        /\ d[k] = "."
        /\ \A j \in (k + 1)..Len(d) : d[j] \in UpperChars \cup LowerChars
        /\ \A j \in 1..(k - 1) : d[j] \in Alnum \cup {"-", "."}
        /\ \A j \in 1..k : (j = 1 \/ d[j - 1] = ".") => d[j] \in Alnum
isEmail(s) ==
    \E i \in 1..Len(s) :
        /\ s[i] = "@"
        /\ LocalPartOk(SubSeq(s, 1, i - 1))
        /\ DomainOk(SubSeq(s, i + 1, Len(s)))

\* /^(?=.*[a-z])(?=.*[A-Z])(?=.*\d)/
PasswordRegex(p) ==
    /\ \E j \in 1..Len(p) : p[j] \in LowerChars
    /\ \E j \in 1..Len(p) : p[j] \in UpperChars
    /\ \E j \in 1..Len(p) : p[j] \in DigitChars

\* registerSchema (the name field is not part of the model): the checks, then
\* the body with the transforms applied
registerSchemaOk(body) ==
    /\ isEmail(body.email) /\ Len(body.email) <= 255
    /\ Len(body.password) >= 6 /\ Len(body.password) <= 100
    /\ PasswordRegex(body.password)
registerSchema(body) ==
    [email |-> trim(toLowerCase(body.email)), password |-> body.password]

\* loginSchema
loginSchemaOk(body) == isEmail(body.email) /\ Len(body.password) >= 1
loginSchema(body) ==
    [email |-> trim(toLowerCase(body.email)), password |-> body.password]

-----------------------------------------------------------------------------
(* Requests and responses                                                  *)

\* res.status(..).json({ success: false, error, details? }); details "" when left out
Response(status, error) ==
    [status |-> status, error |-> error, details |-> "", user |-> NoSafeUser,
     accessToken |-> NoToken, refreshToken |-> NoToken]
NoResponse == Response(0, "")

\* res.status(..).json({ success: true, data: { user, accessToken, refreshToken } })
AuthResponse(status, user, accessToken, refreshToken) ==
    [status |-> status, error |-> "", details |-> "", user |-> user,
     accessToken |-> accessToken, refreshToken |-> refreshToken]

IdleRequest ==
    [op |-> "none", pc |-> "idle",
     \* req.body
     rawEmail |-> <<>>, email |-> <<>>, password |-> <<>>, token |-> NoToken,
     \* locals of the handler
     payload |-> NullPayload, storedToken |-> NoRecord, user |-> NoUser,
     accessToken |-> NoToken, refreshToken |-> NoToken, expiresAt |-> 0,
     \* history of the request, read by the properties only
     sawPresent |-> FALSE,     \* register: a user had its email, case aside, at the lookup
     afterRotation |-> FALSE,  \* its token had been rotated when it arrived
     afterLogout |-> FALSE,    \* its token was logged out when it was looked up (or arrived)
     sawVerified |-> FALSE,    \* the token verified when the handler verified it
     sawLive |-> FALSE,        \* a live Ledger row held the token at the lookup
     afterExpiry |-> FALSE,    \* the Ledger row of its token was past expiresAt when it arrived
     peerWon |-> FALSE,        \* another refresh that read the same row answered 200
     ownerGone |-> FALSE,      \* refresh: no user had the userId of its token when it arrived
     nodeEnv |-> "",           \* NODE_ENV as errorHandler read it, if it ran
     deleted |-> 0,            \* id of the Ledger row the rotation deleted
     inserted |-> 0]           \* id of the Ledger row the handler inserted

\* what a failed login logged and answered
Failure(log, resp) == [log |-> log, status |-> resp.status, error |-> resp.error]
NoFailure == Failure("", NoResponse)

\* the response of a handler that has returned, with the history of its request;
\* before: the failed login answered just before this one, if this is a failed login
Sent(q, resp, log) ==
    [op |-> q.op, rawEmail |-> q.rawEmail, token |-> q.token, userId |-> q.user.id,
     resp |-> resp, log |-> log, before |-> NoFailure, sawPresent |-> q.sawPresent,
     afterRotation |-> q.afterRotation, afterLogout |-> q.afterLogout,
     sawVerified |-> q.sawVerified, sawLive |-> q.sawLive,
     afterExpiry |-> q.afterExpiry, peerWon |-> q.peerWon, nodeEnv |-> q.nodeEnv,
     ownerGone |-> q.ownerGone,
     deleted |-> q.deleted, inserted |-> q.inserted]
NothingSent == Sent(IdleRequest, NoResponse, "")

Free(r) == req[r].pc = "idle"
\* a new request takes the first free slot
Accepts(r) == Free(r) /\ \A q \in Req : q < r => ~Free(q)

\* the handler of slot r goes on to its next await as q
Continue(r, q) ==
    /\ req' = [req EXCEPT ![r] = q]
    /\ UNCHANGED last

\* the handler of slot r, in state q, sends resp and returns
Answer(r, q, resp, log) ==
    /\ req' = [req EXCEPT ![r] = IdleRequest]
    /\ last' = Sent(q, resp, log)

\* bounds on the two serials: a request that may insert a row is admitted only
\* while a row is left for it
WillInsertToken(q) == q.op \in {"register", "login", "refresh"}
TokenBudget == (nextTokenId - 1) + Cardinality({q \in Req : WillInsertToken(req[q])}) < MaxTokens
PendingEmails == {req[q].email : q \in {x \in Req : req[x].op = "register" /\ req[x].pc = "insertUser"}}
UserBudget(email) ==
    \/ EmailTaken(email)
    \/ email \in PendingEmails
    \/ (nextUserId - 1) + Cardinality(PendingEmails) < MaxUsers

\* two emails that differ by the case of their letters at most
CaseInsensitiveEqual(a, b) ==
    /\ Len(a) = Len(b)
    /\ \A i \in 1..Len(a) :
          a[i] = b[i] \/ \E k \in 1..26 : {a[i], b[i]} = {Upper[k], Lower[k]}

\* an issuance for a user ends the "logged out" history of that user's tokens
IssuedFor(userId) == {t \in revoked : t.userId # userId}

-----------------------------------------------------------------------------
(* authController.register                                                 *)

\* validateBody: res.status(400).json({ error: 'Validation failed', details })
ValidationFailed == [Response(400, "Validation failed") EXCEPT !.details = "validationErrors"]

RegisterFailed == Response(500, "Failed to register user")
DuplicateEmail == Response(400, "User with this email already exists")

RegisterFindExisting(r, email, password, ok) ==
    /\ Accepts(r)
    /\ LET raw == [email |-> email, password |-> password]
           body == registerSchema(raw)
           q == [IdleRequest EXCEPT
                    !.op = "register", !.rawEmail = email,
                    !.email = body.email, !.password = body.password,
                    !.sawPresent = \E u \in users : CaseInsensitiveEqual(u.email, email)]
       IN  IF ~registerSchemaOk(raw)
           THEN Answer(r, [q EXCEPT !.email = <<>>, !.password = <<>>],
                       ValidationFailed, "Body validation failed")
           ELSE /\ TokenBudget
                /\ UserBudget(body.email)
                /\ IF ~ok THEN Answer(r, q, RegisterFailed, "Failed to register user")
                   ELSE IF UsersByEmail(body.email) # {}
                   THEN Answer(r, q, DuplicateEmail, "Registration failed: user already exists")
                   ELSE Continue(r, [q EXCEPT !.pc = "insertUser",
                                              !.password = bcryptHash(body.password)])
    /\ UNCHANGED <<env, call, http, now, users, nextUserId, ledger, nextTokenId, known, rotated, revoked>>

RegisterInsertUser(r, ok) ==
    /\ req[r].op = "register" /\ req[r].pc = "insertUser"
    /\ LET q == req[r]
           user == [id |-> nextUserId, email |-> q.email, password |-> q.password,
                    role |-> "user", isActive |-> TRUE]
           expiresAt == getTokenExpirationTime(EnvRefreshExpiresIn, now)
       IN  IF ~ok \/ EmailTaken(q.email)
           THEN /\ Answer(r, q, RegisterFailed, "Failed to register user")
                /\ UNCHANGED <<users, nextUserId>>
           ELSE /\ users' = users \cup {user}
                /\ nextUserId' = nextUserId + 1
                /\ IF generateRefreshToken(SafeUser(user), now) = SignThrown \/ expiresAt = Throws
                   THEN Answer(r, q, RegisterFailed, "Failed to register user")
                   ELSE Continue(r, [q EXCEPT !.pc = "insertToken", !.user = user,
                                       !.accessToken = generateAccessToken(SafeUser(user), now),
                                       !.refreshToken = generateRefreshToken(SafeUser(user), now),
                                       !.expiresAt = expiresAt])
    /\ UNCHANGED <<env, call, http, now, ledger, nextTokenId, known, rotated, revoked>>

\* a refresh that answers 200 is seen by the other refreshes that read the same row
TellPeers(r, q) ==
    [x \in Req |->
        IF x = r THEN IdleRequest
        ELSE IF /\ q.op = "refresh" /\ req[x].op = "refresh"
                /\ req[x].storedToken # NoRecord
                /\ req[x].storedToken.id = q.storedToken.id
             THEN [req[x] EXCEPT !.peerWon = TRUE]
             ELSE req[x]]

\* mutant: the access token is stored in place of the refresh token
NewRowAccessToken(q) ==
    [id |-> nextTokenId, userId |-> q.user.id, token |-> q.accessToken,
     expiresAt |-> q.expiresAt]

\* mutant: the row is bound to the owner of the row the handler read
NewRowStoredOwner(q) ==
    [id |-> nextTokenId, userId |-> q.storedToken.userId, token |-> q.refreshToken,
     expiresAt |-> q.expiresAt]

\* values({ userId: user.id, token: refreshToken, expiresAt: ... }), id from the serial
NewRow(q) ==
    [id |-> nextTokenId, userId |-> q.user.id, token |-> q.refreshToken,
     expiresAt |-> q.expiresAt]

\* mutant: the new row replaces the rows the user already has
InsertRefreshTokenSingleSession(r, ok, status, failure) ==
    LET q == req[r]
        row == NewRow(q)
    IN  IF ~ok \/ TokenTaken(q.refreshToken) \/ OwnerMissing(q.user.id)
        THEN /\ Answer(r, q, Response(500, failure), failure)
             /\ UNCHANGED <<ledger, nextTokenId, known, rotated, revoked>>
        ELSE /\ ledger' = {old \in ledger : old.userId # q.user.id} \cup {row}
             /\ nextTokenId' = nextTokenId + 1
             /\ known' = known \cup {q.refreshToken}
             /\ revoked' = IssuedFor(q.user.id)
             /\ rotated' = IF q.op = "refresh" THEN rotated \cup {q.token} ELSE rotated
             /\ req' = TellPeers(r, q)
             /\ last' = Sent([q EXCEPT !.inserted = row.id],
                             AuthResponse(status,
                                          IF q.op = "refresh" THEN NoSafeUser ELSE SafeUser(q.user),
                                          q.accessToken, q.refreshToken),
                             "success")

\* db.insert(refreshTokens).values({ userId, token, expiresAt }) and the success
\* response that follows it, shared by register, login and refresh
InsertRefreshToken(r, ok, status, failure) ==
    LET q == req[r]
        row == NewRow(q)
    IN  IF ~ok \/ TokenTaken(q.refreshToken) \/ OwnerMissing(q.user.id)
        THEN /\ Answer(r, q, Response(500, failure), failure)
             /\ UNCHANGED <<ledger, nextTokenId, known, rotated, revoked>>
        ELSE /\ ledger' = ledger \cup {row}
             /\ nextTokenId' = nextTokenId + 1
             /\ known' = known \cup {q.refreshToken}
             /\ revoked' = IssuedFor(q.user.id)
             /\ rotated' = IF q.op = "refresh" THEN rotated \cup {q.token} ELSE rotated
             /\ req' = TellPeers(r, q)
             /\ last' = Sent([q EXCEPT !.inserted = row.id],
                             AuthResponse(status,
                                          IF q.op = "refresh" THEN NoSafeUser ELSE SafeUser(q.user),
                                          q.accessToken, q.refreshToken),
                             "success")

RegisterInsertToken(r, ok) ==
    /\ req[r].op = "register" /\ req[r].pc = "insertToken"
    /\ InsertRefreshToken(r, ok, 201, "Failed to register user")
    /\ UNCHANGED <<env, call, http, now, users, nextUserId>>

-----------------------------------------------------------------------------
(* authController.login                                                    *)

LoginFailed == Response(500, "Failed to login")

\* the three 401 responses of login, by the reason the handler logs
UserMissingResponse == Response(401, "Invalid email or password")
InactiveResponse == Response(401, "Account is inactive")
\* mutant: a wrong password gets a message of its own
WrongPasswordDistinct == Response(401, "Invalid password")
WrongPasswordResponse == Response(401, "Invalid email or password")

LoginFailureLogs == {"Login failed: user not found",
                     "Login failed: user account is inactive",
                     "Login failed: invalid password"}

LoginFindUser(r, email, password, ok) ==
    /\ Accepts(r)
    /\ TokenBudget
    /\ LET raw == [email |-> email, password |-> password]
           body == loginSchema(raw)
           q == [IdleRequest EXCEPT !.op = "login", !.rawEmail = email,
                                    !.email = body.email, !.password = body.password]
           foundUsers == UsersByEmail(body.email)
           user == First(foundUsers)
           expiresAt == getTokenExpirationTime(EnvRefreshExpiresIn, now)
           Reject(resp, log) ==
               /\ req' = [req EXCEPT ![r] = IdleRequest]
               /\ last' = [Sent(q, resp, log) EXCEPT !.before =
                              IF last.log \in LoginFailureLogs
                              THEN Failure(last.log, last.resp) ELSE NoFailure]
       IN  IF ~loginSchemaOk(raw)
           THEN Answer(r, q, ValidationFailed, "Body validation failed")
           ELSE IF ~ok
           THEN Answer(r, q, LoginFailed, "Failed to login user")
           ELSE IF foundUsers = {}
                THEN Reject(UserMissingResponse, "Login failed: user not found")
           ELSE IF ~user.isActive
                THEN Reject(InactiveResponse, "Login failed: user account is inactive")
           ELSE IF ~bcryptCompare(body.password, user.password)
                THEN Reject(WrongPasswordResponse, "Login failed: invalid password")
           ELSE IF generateRefreshToken(SafeUser(user), now) = SignThrown \/ expiresAt = Throws
                THEN Answer(r, q, LoginFailed, "Failed to login user")
           ELSE Continue(r, [q EXCEPT !.pc = "insertToken", !.user = user,
                               !.accessToken = generateAccessToken(SafeUser(user), now),
                               !.refreshToken = generateRefreshToken(SafeUser(user), now),
                               !.expiresAt = expiresAt])
    /\ UNCHANGED <<env, call, http, now, users, nextUserId, ledger, nextTokenId, known, rotated, revoked>>

LoginInsertToken(r, ok) ==
    /\ req[r].op = "login" /\ req[r].pc = "insertToken"
    /\ InsertRefreshToken(r, ok, 200, "Failed to login")
    /\ UNCHANGED <<env, call, http, now, users, nextUserId>>

-----------------------------------------------------------------------------
(* authController.refreshToken                                             *)

InvalidToken == Response(403, "Invalid refresh token")
TokenExpired == Response(403, "Refresh token expired")
\* mutant: the missing user is answered as profile answers it
UserNotFoundAs404 == Response(404, "User not found")
UserNotFound == Response(403, "User not found")
RefreshFailed == Response(500, "Failed to refresh token")

\* mutant: the expiry of the Ledger row is never looked at
LedgerExpiredNever(row, t) == FALSE

\* new Date() > storedToken.expiresAt
LedgerExpired(row, t) == t > row.expiresAt

\* db.delete(refreshTokens).where(eq(refreshTokens.id, id))
DeleteById(rows, id) == {row \in rows : row.id # id}

\* mutant: the delete matches no row
DeleteByTokenNothing(rows, token) == rows
\* mutant: the delete matches every row of the token's user
DeleteByTokenOwner(rows, token) == {row \in rows : row.userId # token.userId}

\* db.delete(refreshTokens).where(eq(refreshTokens.token, token))
DeleteByToken(rows, token) == {row \in rows : row.token # token}

\* const payload = verifyRefreshToken(token); if (!payload) return 403
RefreshVerify(r, token) ==
    /\ Accepts(r)
    /\ TokenBudget
    /\ LET payload == verifyRefreshToken(token, now)
           q == [IdleRequest EXCEPT !.op = "refresh", !.token = token,
                                    !.afterRotation = token \in rotated,
                                    !.afterLogout = token \in revoked,
                                    !.afterExpiry = \E row \in ledger :
                                                       row.token = token /\ now > row.expiresAt,
                                    !.ownerGone = OwnerMissing(token.userId),
                                    !.sawVerified = jwtVerifyOk(token, JWT_REFRESH_SECRET, now)]
       IN  IF payload = NullPayload
           THEN Answer(r, q, InvalidToken, "Refresh token verification failed")
           ELSE Continue(r, [q EXCEPT !.pc = "findToken", !.payload = payload])
    /\ UNCHANGED <<env, call, http, now, users, nextUserId, ledger, nextTokenId, known, rotated, revoked>>

RefreshFindToken(r, ok) ==
    /\ req[r].op = "refresh" /\ req[r].pc = "findToken"
    /\ LET storedTokens == TokensByToken(req[r].token)
           storedToken == First(storedTokens)
           q == [req[r] EXCEPT !.afterLogout = req[r].token \in revoked,
                               !.sawLive = \E row \in ledger :
                                              row.token = req[r].token /\ now <= row.expiresAt]
       IN  IF ~ok THEN Answer(r, q, RefreshFailed, "Failed to refresh token")
           ELSE IF storedTokens = {}
                THEN Answer(r, q, InvalidToken, "Refresh token not found in database")
           ELSE Continue(r, [q EXCEPT !.storedToken = storedToken,
                               !.pc = IF LedgerExpired(storedToken, now)
                                      THEN "deleteExpired" ELSE "findUser"])
    /\ UNCHANGED <<env, call, http, now, users, nextUserId, ledger, nextTokenId, known, rotated, revoked>>

RefreshDeleteExpired(r, ok) ==
    /\ req[r].op = "refresh" /\ req[r].pc = "deleteExpired"
    /\ IF ~ok
       THEN /\ Answer(r, req[r], RefreshFailed, "Failed to refresh token")
            /\ UNCHANGED ledger
       ELSE /\ ledger' = DeleteById(ledger, req[r].storedToken.id)
            /\ Answer(r, req[r], TokenExpired, "")
    /\ UNCHANGED <<env, call, http, now, users, nextUserId, nextTokenId, known, rotated, revoked>>

\* mutant: the new pair is signed from the payload of the presented token
RefreshFindUserFromPayload(r, ok) ==
    /\ req[r].op = "refresh" /\ req[r].pc = "findUser"
    /\ LET q == req[r]
           foundUsers == UsersById(q.payload.userId)
           user == First(foundUsers)
           subject == [id |-> q.payload.userId, email |-> q.payload.email,
                       role |-> q.payload.role]
       IN  IF ~ok THEN Answer(r, q, RefreshFailed, "Failed to refresh token")
           ELSE IF foundUsers = {} THEN Answer(r, q, UserNotFound, "")
           ELSE IF generateRefreshToken(subject, now) = SignThrown
                THEN Answer(r, q, RefreshFailed, "Failed to refresh token")
           ELSE Continue(r, [q EXCEPT !.pc = "deleteOld", !.user = user,
                               !.accessToken = generateAccessToken(subject, now),
                               !.refreshToken = generateRefreshToken(subject, now)])
    /\ UNCHANGED <<env, call, http, now, users, nextUserId, ledger, nextTokenId, known, rotated, revoked>>

RefreshFindUser(r, ok) ==
    /\ req[r].op = "refresh" /\ req[r].pc = "findUser"
    /\ LET q == req[r]
           foundUsers == UsersById(q.payload.userId)
           user == First(foundUsers)
       IN  IF ~ok THEN Answer(r, q, RefreshFailed, "Failed to refresh token")
           ELSE IF foundUsers = {} THEN Answer(r, q, UserNotFound, "")
           ELSE IF generateRefreshToken(SafeUser(user), now) = SignThrown
                THEN Answer(r, q, RefreshFailed, "Failed to refresh token")
           ELSE Continue(r, [q EXCEPT !.pc = "deleteOld", !.user = user,
                               !.accessToken = generateAccessToken(SafeUser(user), now),
                               !.refreshToken = generateRefreshToken(SafeUser(user), now)])
    /\ UNCHANGED <<env, call, http, now, users, nextUserId, ledger, nextTokenId, known, rotated, revoked>>

RefreshDeleteOld(r, ok) ==
    /\ req[r].op = "refresh" /\ req[r].pc = "deleteOld"
    /\ LET q == req[r]
           expiresAt == getTokenExpirationTime(EnvRefreshExpiresIn, now)
       IN  IF ~ok
           THEN /\ Answer(r, q, RefreshFailed, "Failed to refresh token")
                /\ UNCHANGED ledger
           ELSE /\ ledger' = DeleteById(ledger, q.storedToken.id)
                /\ IF expiresAt = Throws
                   THEN Answer(r, [q EXCEPT !.deleted = q.storedToken.id],
                               RefreshFailed, "Failed to refresh token")
                   ELSE Continue(r, [q EXCEPT !.pc = "insertToken", !.expiresAt = expiresAt,
                                       !.deleted = q.storedToken.id])
    /\ UNCHANGED <<env, call, http, now, users, nextUserId, nextTokenId, known, rotated, revoked>>

RefreshInsertToken(r, ok) ==
    /\ req[r].op = "refresh" /\ req[r].pc = "insertToken"
    /\ InsertRefreshToken(r, ok, 200, "Failed to refresh token")
    /\ UNCHANGED <<env, call, http, now, users, nextUserId>>

-----------------------------------------------------------------------------
(* authController.logout                                                   *)

LoggedOut == Response(200, "")
LogoutFailed == Response(500, "Failed to logout")

Logout(r, token, ok) ==
    /\ Accepts(r)
    /\ LET q == [IdleRequest EXCEPT !.op = "logout", !.token = token,
                                    !.afterLogout = token \in revoked]
       IN  IF ~ok
           THEN /\ Answer(r, q, LogoutFailed, "Failed to logout")
                /\ UNCHANGED <<ledger, revoked>>
           ELSE /\ ledger' = DeleteByToken(ledger, token)
                /\ revoked' = revoked \cup ({token} \cap known)
                /\ Answer(r, q, LoggedOut, "User logged out successfully")
    /\ UNCHANGED <<env, call, http, now, users, nextUserId, nextTokenId, known, rotated>>

-----------------------------------------------------------------------------
(* userController.updateUser, PUT /users/:id with { isActive }             *)

UpdateUser(id, isActive) ==
    /\ \E u \in users :
          /\ u.id = id
          /\ u.isActive # isActive
          /\ users' = (users \ {u}) \cup {[u EXCEPT !.isActive = isActive]}
    /\ UNCHANGED <<env, call, http, now, nextUserId, ledger, nextTokenId, req, last, known, rotated, revoked>>

\* PUT /users/:id with { email }: the row takes the new email; the update is
\* refused (500, nothing changes) when another row holds it
UpdateUserEmail(id, email) ==
    /\ \E u \in users :
          /\ u.id = id
          /\ u.email # email
          /\ ~EmailTaken(email)
          /\ users' = (users \ {u}) \cup {[u EXCEPT !.email = email]}
    /\ UNCHANGED <<env, call, http, now, nextUserId, ledger, nextTokenId, req, last, known, rotated, revoked>>

-----------------------------------------------------------------------------
(* userController.deleteUser, DELETE /users/:id                            *)

\* What the foreign key of refresh_tokens does when its user is deleted is
\* written in db/schema.ts: either the rows of the user go with it, or the
\* delete is refused while such rows exist (500, nothing changes).
DeleteRules == {"cascade", "no action"}

DeleteUser(id, onDelete) ==
    /\ \E u \in users : u.id = id /\ users' = users \ {u}
    /\ onDelete = "no action" => ~\E row \in ledger : row.userId = id
    /\ ledger' = {row \in ledger : row.userId # id}
    /\ UNCHANGED <<env, call, http, now, nextUserId, nextTokenId, req, last, known, rotated, revoked>>

-----------------------------------------------------------------------------
(* The process is stopped and started again with another configuration     *)

\* values of JWT_REFRESH_EXPIRES_IN: the default, '1w' (which jwt.sign reads and
\* getTokenExpirationTime does not) and '1x' (which neither reads)
RefreshLifetimes == {DefaultRefreshExpiresIn, <<"1", "w">>, <<"1", "x">>}

\* no request is being handled
Quiet == \A r \in Req : Free(r)

\* app.ts runs no check of the configuration: the server listens again
Restart(expiresIn) ==
    /\ Quiet
    /\ env.JWT_REFRESH_EXPIRES_IN # expiresIn
    /\ env' = [env EXCEPT !.JWT_REFRESH_EXPIRES_IN = expiresIn]
    /\ UNCHANGED <<call, http, now, users, nextUserId, ledger, nextTokenId, req, last, known, rotated, revoked>>

-----------------------------------------------------------------------------
(* The clock                                                               *)

Tick ==
    /\ now < MaxTime
    /\ now' = now + 1
    /\ UNCHANGED <<users, nextUserId, ledger, nextTokenId, req, last, known, rotated, revoked>>
    /\ UNCHANGED <<env, call, http>>

-----------------------------------------------------------------------------
(* The Token Codec on its own: its functions applied to sample inputs      *)

system == <<users, nextUserId, ledger, nextTokenId, req, last, known, rotated, revoked>>

\* user records handed to generateAccessToken / generateRefreshToken
CodecUsers ==
    {[id |-> i, email |-> e, role |-> ro, isActive |-> TRUE] :
        i \in 1..(MaxUsers + 1), e \in {EmailA, EmailB}, ro \in {"user", "admin"}}

\* expiresIn strings of the form <integer><unit>, with the amount and unit they spell
WellFormedDurations ==
    {[text |-> <<"1", "5", "m">>, amount |-> 15, unit |-> "m"],
     [text |-> <<"0", "s">>, amount |-> 0, unit |-> "s"],
     [text |-> <<"1", "s">>, amount |-> 1, unit |-> "s"],
     [text |-> <<"1", "0", "s">>, amount |-> 10, unit |-> "s"],
     [text |-> <<"0", "5", "m">>, amount |-> 5, unit |-> "m"],
     [text |-> <<"2", "h">>, amount |-> 2, unit |-> "h"],
     [text |-> <<"7", "d">>, amount |-> 7, unit |-> "d"]}
\* '15', '15x', '', '-5m', '1.5h', 'm', '15M', ' 15m', '15ms', '15m '
MalformedDurations ==
    {<<"1", "5">>, <<"1", "5", "x">>, <<>>, <<"-", "5", "m">>, <<"1", ".", "5", "h">>,
     <<"m">>, <<"1", "5", "M">>, <<" ", "1", "5", "m">>, <<"1", "5", "m", "s">>,
     <<"1", "5", "m", " ">>}
DurationTexts == {d.text : d \in WellFormedDurations} \cup MalformedDurations

\* no call of a codec function has been made
NoCall ==
    [fn |-> "none", user |-> NoSafeUser, issuedBy |-> "none", issuedAt |-> 0, token |-> NoToken,
     verifier |-> "none", at |-> 0, result |-> NullPayload, expiresIn |-> <<>>, expiresAt |-> 0]

\* generateAccessToken(user) or generateRefreshToken(user) at the present instant
Generate(codec, user) ==
    /\ call' = [NoCall EXCEPT
                   !.fn = "generate", !.user = user, !.issuedBy = codec, !.issuedAt = now,
                   !.token = IF codec = "access" THEN generateAccessToken(user, now)
                             ELSE generateRefreshToken(user, now)]
    /\ UNCHANGED <<env, now, http>>
    /\ UNCHANGED system

\* a token string that no generate function of this server returned
Present(token) ==
    /\ call' = [NoCall EXCEPT !.fn = "present", !.token = token,
                              !.issuedBy = IF token = Garbage THEN "garbage" ELSE "forged"]
    /\ UNCHANGED <<env, now, http>>
    /\ UNCHANGED system

\* verifyAccessToken(token) or verifyRefreshToken(token) of the token at hand,
\* at the present instant
Verify(codec) ==
    /\ call.fn \in {"generate", "present", "verify"}
    /\ call' = [call EXCEPT
                   !.fn = "verify", !.verifier = codec, !.at = now,
                   !.result = IF codec = "access" THEN verifyAccessToken(call.token, now)
                              ELSE verifyRefreshToken(call.token, now)]
    /\ UNCHANGED <<env, now, http>>
    /\ UNCHANGED system

\* getTokenExpirationTime(expiresIn) at the present instant
ComputeExpiry(expiresIn) ==
    /\ call' = [NoCall EXCEPT
                   !.fn = "getTokenExpirationTime", !.expiresIn = expiresIn, !.at = now,
                   !.expiresAt = getTokenExpirationTime(expiresIn, now)]
    /\ UNCHANGED <<env, now, http>>
    /\ UNCHANGED system

-----------------------------------------------------------------------------
(* middleware/auth.ts: authenticateToken, requireRole, optionalAuth        *)

\* An Authorization header is a string of words, single spaces and token
\* strings; a request may carry none (undefined).
Space == [atom |-> "space", token |-> NoToken]
Word(w) == [atom |-> w, token |-> NoToken]
TokenText(token) == [atom |-> "token", token |-> token]
NoHeader == [present |-> FALSE, text |-> <<>>]
Header(text) == [present |-> TRUE, text |-> text]

\* String.prototype.split(' ')
RECURSIVE split(_)
split(text) ==
    IF \A i \in 1..Len(text) : text[i] # Space THEN <<text>>
    ELSE LET i == CHOOSE k \in 1..Len(text) :
                     text[k] = Space /\ \A j \in 1..(k - 1) : text[j] # Space
         IN  <<SubSeq(text, 1, i - 1)>> \o split(SubSeq(text, i + 1, Len(text)))

\* authHeader && authHeader.split(' ')[1]; undefined and '' are both falsy, <<>>
BearerToken(header) ==
    IF ~header.present \/ header.text = <<>> THEN <<>>
    ELSE LET parts == split(header.text)
         IN  IF Len(parts) >= 2 THEN parts[2] ELSE <<>>

\* the string handed to verifyAccessToken, as a token of the codec
TokenOf(part) ==
    IF Len(part) = 1 /\ part[1].atom = "token" THEN part[1].token ELSE Garbage

AccessTokenRequired == Response(401, "Access token required")
InvalidOrExpired == Response(403, "Invalid or expired token")
AuthenticationRequired == Response(401, "Authentication required")
InsufficientPermissions == Response(403, "Insufficient permissions")

\* what a middleware does with a request: the response it sends (if any), the
\* identity on the request afterwards, and its calls of next()
Outcome(res, user, next) == [res |-> res, user |-> user, next |-> next]

\* mutant: the payload is attached and next() called whatever verification says
authenticateTokenUnchecked(request, t) ==
    Outcome(NoResponse, PayloadOf(TokenOf(BearerToken(request.header))), 1)

\* mutant: a token is accepted only while its user has a row in the Ledger
authenticateTokenWithSession(request, t) ==
    LET token == BearerToken(request.header)
        payload == verifyAccessToken(TokenOf(token), t)
    IN  IF token = <<>> THEN Outcome(AccessTokenRequired, request.user, 0)
        ELSE IF payload = NullPayload \/ ~\E row \in ledger : row.userId = payload.userId
             THEN Outcome(InvalidOrExpired, request.user, 0)
        ELSE Outcome(NoResponse, payload, 1)

authenticateToken(request, t) ==
    LET token == BearerToken(request.header)
        payload == verifyAccessToken(TokenOf(token), t)
    IN  IF token = <<>> THEN Outcome(AccessTokenRequired, request.user, 0)
        ELSE IF payload = NullPayload THEN Outcome(InvalidOrExpired, request.user, 0)
        ELSE Outcome(NoResponse, payload, 1)

\* mutant: any attached identity passes
requireRoleAnyRole(roles, request) ==
    IF request.user = NullPayload THEN Outcome(AuthenticationRequired, request.user, 0)
    ELSE Outcome(NoResponse, request.user, 1)

requireRole(roles, request) ==
    IF request.user = NullPayload THEN Outcome(AuthenticationRequired, request.user, 0)
    ELSE IF request.user.role \notin roles
         THEN Outcome(InsufficientPermissions, request.user, 0)
    ELSE Outcome(NoResponse, request.user, 1)

requireAdmin(request) == requireRole({"admin"}, request)
requireUser(request) == requireRole({"user", "admin"}, request)

\* mutant: the token is verified as a refresh token
optionalAuthRefreshSecret(request, t) ==
    LET token == BearerToken(request.header)
        payload == verifyRefreshToken(TokenOf(token), t)
    IN  IF token # <<>> /\ payload # NullPayload THEN Outcome(NoResponse, payload, 1)
        ELSE Outcome(NoResponse, request.user, 1)

optionalAuth(request, t) ==
    LET token == BearerToken(request.header)
        payload == verifyAccessToken(TokenOf(token), t)
    IN  IF token # <<>> /\ payload # NullPayload THEN Outcome(NoResponse, payload, 1)
        ELSE Outcome(NoResponse, request.user, 1)

\* The middleware on its own: a request with a sample header goes through
\* authenticateToken or optionalAuth and a requireRole, in any order a route
\* could chain them.
HeaderUsers == {u \in CodecUsers : u.id = 1 /\ u.email = EmailA}
HeaderTokens ==
    {generateAccessToken(u, 0) : u \in HeaderUsers}
        \cup {generateRefreshToken(u, 0) : u \in HeaderUsers} \cup {Garbage, Forged}
\* headers with the token (second part) they carry, NoToken for none
Headers ==
    {[header |-> Header(<<Word("Bearer"), Space, TokenText(t)>>), carries |-> t] :
        t \in HeaderTokens}
    \cup {[header |-> Header(<<Word("Bearer"), Space, TokenText(t), Space, Word("x")>>),
           carries |-> t] : t \in HeaderTokens}
    \cup {[header |-> Header(<<Word("Bearer"), Space, Word("abc")>>), carries |-> Garbage]}
    \cup {[header |-> Header(<<Word("Basic"), Space, TokenText(t)>>), carries |-> t] :
            t \in HeaderTokens}
    \cup {[header |-> h, carries |-> NoToken] :
            h \in {NoHeader, Header(<<>>), Header(<<Word("Bearer")>>),
                   Header(<<Word("Bearer"), Space>>),
                   Header(<<Word("Bearer"), Space, Space,
                            TokenText(generateAccessToken(CHOOSE u \in HeaderUsers : TRUE, 0))>>),
                   Header(<<TokenText(generateAccessToken(CHOOSE u \in HeaderUsers : TRUE, 0))>>)}}
RoleLists == {{"admin"}, {"user", "admin"}, {"user"}}

\* no request is in the middleware
NoHttp ==
    [pc |-> "none", header |-> NoHeader, carries |-> NoToken, user |-> NullPayload,
     res |-> NoResponse, next |-> 0, ran |-> "none", roles |-> {}, at |-> 0,
     userBefore |-> NullPayload]

Arrive(h) ==
    /\ http' = [NoHttp EXCEPT !.pc = "arrived", !.header = h.header, !.carries = h.carries]
    /\ UNCHANGED <<env, now, call>>
    /\ UNCHANGED system

\* the request goes through middleware mw, whose outcome is out
Through(mw, roles, out) ==
    http' = [http EXCEPT !.pc = IF out.res = NoResponse THEN "passed" ELSE "responded",
                         !.ran = mw, !.roles = roles, !.at = now,
                         !.userBefore = http.user,
                         !.user = out.user, !.res = out.res, !.next = out.next]

RunAuthenticateToken ==
    /\ http.pc = "arrived"
    /\ Through("authenticateToken", {}, authenticateToken(http, now))
    /\ UNCHANGED <<env, now, call>>
    /\ UNCHANGED system

RunOptionalAuth ==
    /\ http.pc = "arrived"
    /\ Through("optionalAuth", {}, optionalAuth(http, now))
    /\ UNCHANGED <<env, now, call>>
    /\ UNCHANGED system

RunRequireRole(roles) ==
    /\ http.pc \in {"arrived", "passed"} /\ http.ran # "requireRole"
    /\ Through("requireRole", roles, requireRole(roles, http))
    /\ UNCHANGED <<env, now, call>>
    /\ UNCHANGED system

-----------------------------------------------------------------------------
(* middleware/errorHandler.ts, the last middleware of the app              *)

\* the error express.json() hands to next() for a body that is no JSON
SyntaxError == [message |-> "Unexpected token } in JSON at position 1"]
NodeEnvs == {"production", "development"}

\* mutant: the message of the error is sent in every mode
errorHandlerLeaks(err, nodeEnv) ==
    [Response(500, "Internal Server Error") EXCEPT !.details = err.message]

errorHandler(err, nodeEnv) ==
    [Response(500, "Internal Server Error") EXCEPT
        !.details = IF nodeEnv = "development" THEN err.message ELSE ""]

\* a POST to a route of the Auth Service whose body express.json() cannot parse
BodyParseError(r, op, nodeEnv) ==
    /\ Accepts(r)
    /\ Answer(r, [IdleRequest EXCEPT !.op = op, !.nodeEnv = nodeEnv],
              errorHandler(SyntaxError, nodeEnv), "Request error")
    /\ UNCHANGED <<env, call, http, now, users, nextUserId, ledger, nextTokenId, known, rotated, revoked>>

-----------------------------------------------------------------------------
(* authController.profile, GET /auth/profile behind authenticateToken      *)

\* mutant: a missing user is answered with an empty profile
ProfileUserNotFoundEmpty == AuthResponse(200, NoSafeUser, NoToken, NoToken)

ProfileUserNotFound == Response(404, "User not found")
ProfileFailed == Response(500, "Failed to get profile")
\* res.status(200).json({ success: true, data: safeUser })
ProfileResponse(user) == AuthResponse(200, user, NoToken, NoToken)

\* the access token that was handed out in the response that carried refresh token t
IssuedWith(t) ==
    generateAccessToken([id |-> t.userId, email |-> t.email, role |-> t.role],
                        t.iat * TicksPerSecond)
\* the access tokens handed out so far
AccessTokens == {IssuedWith(k) : k \in known}
\* the Authorization headers a client sends: none, or Bearer and an access token
\* it was given, its refresh token, or a forged token
ProfileHeaders ==
    {NoHeader} \cup {Header(<<Word("Bearer"), Space, TokenText(t)>>) :
                        t \in AccessTokens \cup known \cup {Forged}}

\* authenticateToken, then the handler up to its select
ProfileAuthenticate(r, header) ==
    /\ Accepts(r)
    /\ LET out == authenticateToken([header |-> header, user |-> NullPayload], now)
           q == [IdleRequest EXCEPT !.op = "profile", !.token = TokenOf(BearerToken(header)),
                                    !.payload = out.user]
       IN  IF out.next = 0 THEN Answer(r, q, out.res, "")
           ELSE IF out.user = NullPayload THEN Answer(r, q, AuthenticationRequired, "")
           ELSE Continue(r, [q EXCEPT !.pc = "findUser"])
    /\ UNCHANGED <<env, call, http, now, users, nextUserId, ledger, nextTokenId, known, rotated, revoked>>

ProfileFindUser(r, ok) ==
    /\ req[r].op = "profile" /\ req[r].pc = "findUser"
    /\ LET q == req[r]
           foundUsers == UsersById(q.payload.userId)
           user == First(foundUsers)
       IN  IF ~ok THEN Answer(r, q, ProfileFailed, "Failed to get profile")
           ELSE IF foundUsers = {} THEN Answer(r, q, ProfileUserNotFound, "")
           ELSE Answer(r, [q EXCEPT !.user = user], ProfileResponse(SafeUser(user)), "")
    /\ UNCHANGED <<env, call, http, now, users, nextUserId, ledger, nextTokenId, known, rotated, revoked>>

-----------------------------------------------------------------------------

\* what a client can put in a request body as refreshToken
Presentable == known \cup {Garbage, Forged}

Init ==
    /\ now = 0
    /\ users = {}
    /\ nextUserId = 1
    /\ ledger = {}
    /\ nextTokenId = 1
    /\ req = [r \in Req |-> IdleRequest]
    /\ last = NothingSent
    /\ known = {}
    /\ rotated = {}
    /\ revoked = {}
    /\ call = NoCall
    /\ http = NoHttp
    /\ env = [JWT_REFRESH_EXPIRES_IN |-> DefaultRefreshExpiresIn]

Next ==
    \/ \E r \in Req, body \in RegisterBodies, ok \in BOOLEAN :
          RegisterFindExisting(r, body.email, body.password, ok)
    \/ \E r \in Req, ok \in BOOLEAN : RegisterInsertUser(r, ok)
    \/ \E r \in Req, ok \in BOOLEAN : RegisterInsertToken(r, ok)
    \/ \E r \in Req, email \in Emails, password \in Passwords, ok \in BOOLEAN :
          LoginFindUser(r, email, password, ok)
    \/ \E r \in Req, ok \in BOOLEAN : LoginInsertToken(r, ok)
    \/ \E r \in Req, token \in Presentable : RefreshVerify(r, token)
    \/ \E r \in Req, ok \in BOOLEAN : RefreshFindToken(r, ok)
    \/ \E r \in Req, ok \in BOOLEAN : RefreshDeleteExpired(r, ok)
    \/ \E r \in Req, ok \in BOOLEAN : RefreshFindUser(r, ok)
    \/ \E r \in Req, ok \in BOOLEAN : RefreshDeleteOld(r, ok)
    \/ \E r \in Req, ok \in BOOLEAN : RefreshInsertToken(r, ok)
    \/ \E r \in Req, token \in Presentable, ok \in BOOLEAN : Logout(r, token, ok)
    \/ \E id \in 1..MaxUsers, isActive \in BOOLEAN : UpdateUser(id, isActive)
    \/ Tick

Spec == Init /\ [][Next]_vars

\* The Auth Service together with its profile route and the user administration
\* of routes/userRoutes.ts; the service handles one request at a time here,
\* and the administration acts between any two of its steps.
One == {1}
AccountNext ==
    \/ \E r \in One, body \in RegisterBodies, ok \in BOOLEAN :
          RegisterFindExisting(r, body.email, body.password, ok)
    \/ \E r \in One, ok \in BOOLEAN : RegisterInsertUser(r, ok)
    \/ \E r \in One, ok \in BOOLEAN : RegisterInsertToken(r, ok)
    \/ \E r \in One, email \in Emails, password \in Passwords, ok \in BOOLEAN :
          LoginFindUser(r, email, password, ok)
    \/ \E r \in One, ok \in BOOLEAN : LoginInsertToken(r, ok)
    \/ \E r \in One, token \in Presentable \cup AccessTokens : RefreshVerify(r, token)
    \/ \E r \in One, ok \in BOOLEAN : RefreshFindToken(r, ok)
    \/ \E r \in One, ok \in BOOLEAN : RefreshDeleteExpired(r, ok)
    \/ \E r \in One, ok \in BOOLEAN : RefreshFindUser(r, ok)
    \/ \E r \in One, ok \in BOOLEAN : RefreshDeleteOld(r, ok)
    \/ \E r \in One, ok \in BOOLEAN : RefreshInsertToken(r, ok)
    \/ \E r \in One, token \in Presentable, ok \in BOOLEAN : Logout(r, token, ok)
    \/ \E r \in One, header \in ProfileHeaders : ProfileAuthenticate(r, header)
    \/ \E r \in One, ok \in BOOLEAN : ProfileFindUser(r, ok)
    \/ \E r \in One, op \in {"register", "login", "refresh", "logout"}, nodeEnv \in NodeEnvs :
          BodyParseError(r, op, nodeEnv)
    \/ \E id \in 1..MaxUsers, isActive \in BOOLEAN : UpdateUser(id, isActive)
    \/ \E id \in 1..MaxUsers, onDelete \in DeleteRules : DeleteUser(id, onDelete)
    \/ Tick

AccountSpec == Init /\ [][AccountNext]_vars

\* The Auth Service across restarts of the process with other values of
\* JWT_REFRESH_EXPIRES_IN, one request at a time; an administrator switches
\* accounts off and on between two requests.
ConfigNext ==
    \/ \E r \in One, body \in RegisterBodies, ok \in BOOLEAN :
          RegisterFindExisting(r, body.email, body.password, ok)
    \/ \E r \in One, ok \in BOOLEAN : RegisterInsertUser(r, ok)
    \/ \E r \in One, ok \in BOOLEAN : RegisterInsertToken(r, ok)
    \/ \E r \in One, email \in Emails, password \in Passwords, ok \in BOOLEAN :
          LoginFindUser(r, email, password, ok)
    \/ \E r \in One, ok \in BOOLEAN : LoginInsertToken(r, ok)
    \/ \E r \in One, token \in Presentable : RefreshVerify(r, token)
    \/ \E r \in One, ok \in BOOLEAN : RefreshFindToken(r, ok)
    \/ \E r \in One, ok \in BOOLEAN : RefreshDeleteExpired(r, ok)
    \/ \E r \in One, ok \in BOOLEAN : RefreshFindUser(r, ok)
    \/ \E r \in One, ok \in BOOLEAN : RefreshDeleteOld(r, ok)
    \/ \E r \in One, ok \in BOOLEAN : RefreshInsertToken(r, ok)
    \/ \E r \in One, token \in Presentable, ok \in BOOLEAN : Logout(r, token, ok)
    \/ \E expiresIn \in RefreshLifetimes : Restart(expiresIn)
    \/ \E id \in 1..MaxUsers, isActive \in BOOLEAN : Quiet /\ UpdateUser(id, isActive)
    \/ Tick

ConfigSpec == Init /\ [][ConfigNext]_vars

\* Registration and refresh, one request at a time, while the email of an
\* account is changed through PUT /users/:id.
IdentityNext ==
    \/ \E r \in One, body \in RegisterBodies, ok \in BOOLEAN :
          RegisterFindExisting(r, body.email, body.password, ok)
    \/ \E r \in One, ok \in BOOLEAN : RegisterInsertUser(r, ok)
    \/ \E r \in One, ok \in BOOLEAN : RegisterInsertToken(r, ok)
    \/ \E r \in One, token \in Presentable : RefreshVerify(r, token)
    \/ \E r \in One, ok \in BOOLEAN : RefreshFindToken(r, ok)
    \/ \E r \in One, ok \in BOOLEAN : RefreshDeleteExpired(r, ok)
    \/ \E r \in One, ok \in BOOLEAN : RefreshFindUser(r, ok)
    \/ \E r \in One, ok \in BOOLEAN : RefreshDeleteOld(r, ok)
    \/ \E r \in One, ok \in BOOLEAN : RefreshInsertToken(r, ok)
    \/ \E id \in 1..MaxUsers, email \in Emails : UpdateUserEmail(id, email)
    \/ Tick

IdentitySpec == Init /\ [][IdentityNext]_vars

CodecNext ==
    \/ \E codec \in {"access", "refresh"}, user \in CodecUsers : Generate(codec, user)
    \/ \E token \in {Garbage, Forged} : Present(token)
    \/ \E codec \in {"access", "refresh"} : Verify(codec)
    \/ \E expiresIn \in DurationTexts : ComputeExpiry(expiresIn)
    \/ Tick

CodecSpec == Init /\ [][CodecNext]_vars

MiddlewareNext ==
    \/ \E h \in Headers : Arrive(h)
    \/ RunAuthenticateToken
    \/ RunOptionalAuth
    \/ \E roles \in RoleLists : RunRequireRole(roles)
    \/ Tick

MiddlewareSpec == Init /\ [][MiddlewareNext]_vars

-----------------------------------------------------------------------------
(* Properties                                                              *)

RefreshSent == last.op = "refresh"
Succeeded(sent) == sent.resp.status \in {200, 201}

\* C1: once a refresh with token T has answered 200, every later refresh with
\* the same string T answers 403 'Invalid refresh token' (a storage failure, 500,
\* aside), whatever the time between the issuance of T and its rotation.
C1_OldTokenUnusable ==
    (RefreshSent /\ last.afterRotation /\ last.resp # RefreshFailed)
        => last.resp = InvalidToken

\* C2: of the concurrent refresh requests that carry the same token string and
\* have read the same Ledger row, at most one answers 200.
C2_AtMostOneWins ==
    ~(RefreshSent /\ Succeeded(last) /\ last.peerWon)

C4_LoggedOutStaysOut ==
    (RefreshSent /\ last.afterLogout /\ last.resp # RefreshFailed)
        => last.resp = InvalidToken

\* a logged-out token whose signature still verified was refused
C4_Witness ==
    /\ RefreshSent /\ last.afterLogout /\ last.sawVerified
    /\ last.resp = InvalidToken

\* C5: a logout whose storage call does not fail answers 200, changes no user,
\* removes exactly the Ledger rows holding its token and inserts none; with no
\* such row (never issued, rotated away, logged out before, bad signature) the
\* Ledger is unchanged.  A logout never answers anything but 200 or 500, and a
\* failed one changes nothing.
C5_LogoutIdempotent ==
    [][(last' # last /\ last'.op = "logout") =>
          /\ users' = users
          /\ last'.resp \in {LoggedOut, LogoutFailed}
          /\ last'.resp = LogoutFailed => ledger' = ledger
          /\ last'.resp = LoggedOut =>
                /\ ledger' = {row \in ledger : row.token # last'.token}
                /\ (~\E row \in ledger : row.token = last'.token) => ledger' = ledger]_vars

\* a second logout of an issued token has answered 200 while other rows are in the Ledger
C5_Witness ==
    /\ last.op = "logout" /\ last.afterLogout /\ last.token \in known
    /\ last.resp = LoggedOut
    /\ ledger # {}

\* C6: while a rotation is between its delete and its insert, no other request
\* reads or writes the Ledger: no Ledger lookup of another refresh completes and
\* the Ledger changes by nothing but the rotation's own insert.
MidRotation(r) == req[r].op = "refresh" /\ req[r].pc = "insertToken"
LookupCompletes(q) ==
    /\ req[q].op = "refresh" /\ req[q].pc = "findToken"
    /\ req'[q].pc # "findToken"
    /\ (last' = last \/ last'.resp # RefreshFailed)
C6_RotationAtomic ==
    [][(\E r \in Req : MidRotation(r)) =>
          /\ ~\E q \in Req : LookupCompletes(q)
          /\ ledger' # ledger => \E r \in Req : MidRotation(r) /\ req'[r].pc = "idle"]_vars

\* C7: a refresh that has deleted the old Ledger row and has returned has
\* inserted the new one.
C7_NoLostRotation ==
    (RefreshSent /\ last.deleted # 0) => last.inserted # 0

\* C8: a login refused for a missing user and a login refused for a wrong
\* password get the same status, 401, and the same error message.
SameAnswer(f, g) == f.status = g.status /\ f.error = g.error
EnumerationLogs == {"Login failed: user not found", "Login failed: invalid password"}
C8_LoginIndistinguishable ==
    (last.log \in EnumerationLogs /\ last.before.log \in EnumerationLogs)
        => (SameAnswer(Failure(last.log, last.resp), last.before) /\ last.resp.status = 401)

\* the two refusals have been answered one after the other
C8_Witness ==
    /\ last.log = "Login failed: invalid password"
    /\ last.before.log = "Login failed: user not found"

\* C9: a login refused for an inactive account gets the same status and the
\* same error message as one refused for a missing user or a wrong password.
InactiveLog == "Login failed: user account is inactive"
C9_InactiveIndistinguishable ==
    /\ (last.log = InactiveLog /\ last.before.log \in EnumerationLogs)
          => SameAnswer(Failure(last.log, last.resp), last.before)
    /\ (last.log \in EnumerationLogs /\ last.before.log = InactiveLog)
          => SameAnswer(Failure(last.log, last.resp), last.before)

\* C10: a register, login or refresh that answers 201/200 has, in the step that
\* answers, inserted exactly one Ledger row; its token is the refresh token of
\* the response, its userId is the user the tokens name (and, for register and
\* login, the user of the response), and it does not expire before the token itself.
C10_IssuanceBacked ==
    [][(last' # last /\ last'.op \in {"register", "login", "refresh"} /\ Succeeded(last')) =>
          \E row \in ledger' :
             /\ ledger' = ledger \cup {row} /\ row \notin ledger
             /\ \A old \in ledger : old.id # row.id
             /\ row.id = last'.inserted
             /\ row.token = last'.resp.refreshToken
             /\ row.userId = last'.resp.refreshToken.userId
             /\ row.userId = last'.resp.accessToken.userId
             /\ last'.op # "refresh" => row.userId = last'.resp.user.id
             /\ row.expiresAt >= row.token.exp * TicksPerSecond]_vars

\* a login has answered 200 and the row of its refresh token is in the Ledger
C10_Witness ==
    /\ last.op = "login" /\ Succeeded(last)
    /\ \E row \in ledger : row.id = last.inserted /\ row.token = last.resp.refreshToken

\* C11: a register whose body passes validation and whose email, compared
\* without regard to case, is that of a user present at the lookup answers 400
\* 'User with this email already exists' (a storage failure, 500, aside) and
\* changes neither users nor the Ledger; and every user row a register inserts
\* holds the email of the request in lower case.
C11_DuplicateEmail ==
    [][/\ (last' # last /\ last'.op = "register" /\ last'.sawPresent
           /\ last'.resp # ValidationFailed) =>
             /\ last'.resp \in {DuplicateEmail, RegisterFailed}
             /\ last'.resp.accessToken = NoToken /\ last'.resp.refreshToken = NoToken
             /\ users' = users /\ ledger' = ledger
       /\ \A u \in users' :
             (\A old \in users : old.id # u.id) =>
                 /\ \A i \in 1..Len(u.email) : u.email[i] \notin UpperChars
                 /\ \E r \in Req : /\ req[r].op = "register"
                                    /\ CaseInsensitiveEqual(u.email, req[r].rawEmail)]_vars

\* a register with the email in upper case was refused as a duplicate of the
\* user stored in lower case
C11_Witness ==
    /\ last.op = "register" /\ last.resp = DuplicateEmail
    /\ last.rawEmail = EmailAUpper
    /\ \E u \in users : u.email = EmailA

\* C12: the access token of a register that answers 201, verified with
\* verifyAccessToken at the instant it was issued, and at the instant of the
\* response when it has not expired by then, yields a payload whose userId is
\* the id of the user row this register inserted, the user of the response.
C12_RegisterTokenNamesUser ==
    [][(last' # last /\ last'.op = "register" /\ Succeeded(last')) =>
          LET token == last'.resp.accessToken
              atIssue == verifyAccessToken(token, token.iat * TicksPerSecond)
              atResponse == verifyAccessToken(token, now')
          IN  /\ last'.userId # 0
              /\ atIssue # NullPayload /\ atIssue.userId = last'.userId
              /\ ClockSeconds(now') < token.exp =>
                    (atResponse # NullPayload /\ atResponse.userId = last'.userId)
              /\ last'.resp.user.id = last'.userId]_vars

\* a register has answered 201 and its access token verifies at once to the new user
C12_Witness ==
    /\ last.op = "register" /\ Succeeded(last)
    /\ verifyAccessToken(last.resp.accessToken, now) # NullPayload
    /\ verifyAccessToken(last.resp.accessToken, now).userId = last.userId
    /\ \E u \in users : u.id = last.userId

\* C13: a token that generateAccessToken (generateRefreshToken) made of a
\* user record, verified by verifyAccessToken (verifyRefreshToken) before the
\* lifetime of the token has run out, yields a payload whose userId, email and
\* role are the id, email and role of that record.
Lifetime(codec) == IF codec = "access" THEN AccessSeconds ELSE RefreshSeconds
BeforeExpiry == ClockSeconds(call.at) < ClockSeconds(call.issuedAt) + Lifetime(call.issuedBy)
OwnCodec == call.issuedBy \in {"access", "refresh"} /\ call.verifier = call.issuedBy
C13_RoundTrip ==
    (call.fn = "verify" /\ OwnCodec /\ BeforeExpiry) =>
        /\ call.result.userId = call.user.id
        /\ call.result.email = call.user.email
        /\ call.result.role = call.user.role

\* a refresh token of an admin, issued after the first tick, gave the admin back
C13_Witness ==
    /\ call.fn = "verify" /\ OwnCodec /\ BeforeExpiry
    /\ call.issuedBy = "refresh" /\ call.issuedAt > 0
    /\ call.user.role = "admin" /\ call.result.role = "admin"
    /\ call.result.userId = call.user.id

\* C14: verifyAccessToken and verifyRefreshToken never hand the error of
\* jwt.verify to the caller; they return null for a string that is no JWT, for a
\* token signed with another secret and for an expired token, and a payload
\* only for an unexpired token signed with their own secret.
C14_VerifyNeverThrows ==
    call.fn = "verify" =>
        /\ call.result # Thrown
        /\ call.issuedBy \in {"garbage", "forged"} => call.result = NullPayload
        /\ ~OwnCodec => call.result = NullPayload
        /\ ~BeforeExpiry => call.result = NullPayload
        /\ (OwnCodec /\ BeforeExpiry) => call.result # NullPayload

\* an own token verified after its expiry gave null
C14_Witness ==
    /\ call.fn = "verify" /\ OwnCodec /\ ~BeforeExpiry
    /\ call.result = NullPayload

\* C15: getTokenExpirationTime returns now + n * unit for an input <n><unit>,
\* unit one of s, m, h, d worth 1, 60, 3600, 86400 seconds ('15m' gives now +
\* 15 minutes, '0s' gives now), and throws for every other string.
C15_ComputeExpiry ==
    call.fn = "getTokenExpirationTime" =>
        /\ call.expiresIn \in MalformedDurations => call.expiresAt = Throws
        /\ \A d \in WellFormedDurations :
              d.text = call.expiresIn =>
                 call.expiresAt = call.at + TicksPerSecond * d.amount *
                    (CASE d.unit = "s" -> 1 [] d.unit = "m" -> 60
                       [] d.unit = "h" -> 3600 [] d.unit = "d" -> 86400)

\* '15m' was computed from a later instant than 0
C15_Witness ==
    /\ call.fn = "getTokenExpirationTime" /\ call.expiresIn = <<"1", "5", "m">>
    /\ call.at > 0 /\ call.expiresAt = call.at + 15 * 60 * TicksPerSecond

\* C16: a refresh whose Ledger lookup finds the row of its token at the very
\* instant of the row's expiresAt treats the token as expired: it goes on to
\* delete the row (a storage failure, 500, aside), never to the user lookup
\* and the rotation.
AtBoundary(r) ==
    /\ req[r].op = "refresh" /\ req[r].pc = "findToken"
    /\ \E row \in ledger : row.token = req[r].token /\ now = row.expiresAt
C16_ExclusiveBoundary ==
    [][\A r \in Req :
          (AtBoundary(r) /\ req'[r].pc # "findToken") =>
              \/ req'[r].pc = "deleteExpired"
              \/ req'[r].pc = "idle" /\ last'.resp = RefreshFailed]_vars

\* C17: a refresh that arrives when the Ledger row of its token is past its
\* expiresAt answers 403 'Refresh token expired' (a storage failure, 500,
\* aside), and the row is gone from the Ledger when it answers.
C17_ExpiredRowRemoved ==
    [][(last' # last /\ last'.op = "refresh" /\ last'.afterExpiry
        /\ last'.resp # RefreshFailed) =>
          /\ last'.resp = TokenExpired
          /\ ~\E row \in ledger' : row.token = last'.token]_vars

\* C18: authenticateToken has three outcomes.  With no token in the header it
\* answers 401 and does not call next(); with a token that fails access-token
\* verification it answers 403 and does not call next(); otherwise it sends no
\* response, attaches the verified payload and calls next() once.  next() is
\* never called without an identity attached.
CarriesValidAccessToken ==
    /\ http.carries \in {generateAccessToken(u, 0) : u \in HeaderUsers}
    /\ ClockSeconds(http.at) < AccessSeconds
C18_ThreeOutcomes ==
    http.ran = "authenticateToken" =>
        /\ http.carries = NoToken =>
              /\ http.res.status = 401 /\ http.res.error = "Access token required"
              /\ http.next = 0 /\ http.user = NullPayload
        /\ (http.carries # NoToken /\ ~CarriesValidAccessToken) =>
              /\ http.res.status = 403 /\ http.res.error = "Invalid or expired token"
              /\ http.next = 0 /\ http.user = NullPayload
        /\ CarriesValidAccessToken =>
              /\ http.res = NoResponse /\ http.next = 1
              /\ http.user.userId = http.carries.userId
              /\ http.user.email = http.carries.email
              /\ http.user.role = http.carries.role
        /\ http.next = 1 => http.user # NullPayload

\* a valid access token of an admin was let through with its identity
C18_Witness ==
    /\ http.ran = "authenticateToken" /\ http.next = 1 /\ http.res = NoResponse
    /\ http.user.role = "admin"

\* C19: requireRole(...roles) calls next() if and only if an identity is
\* attached and its role is one of roles; with no identity it answers 401,
\* with an identity of another role 403.  requireAdmin passes the role admin
\* only, requireUser the roles user and admin.
C19_Authorize ==
    /\ http.ran = "requireRole" =>
          LET identity == http.userBefore
          IN  /\ http.next = 1 <=> (identity # NullPayload /\ identity.role \in http.roles)
              /\ http.next = 1 => http.res = NoResponse
              /\ identity = NullPayload =>
                    (http.res.status = 401 /\ http.res.error = "Authentication required")
              /\ (identity # NullPayload /\ identity.role \notin http.roles) =>
                    (http.res.status = 403 /\ http.res.error = "Insufficient permissions")
              /\ http.user = identity
    /\ requireAdmin(http).next = 1 <=> (http.user # NullPayload /\ http.user.role = "admin")
    /\ requireUser(http).next = 1 <=>
          (http.user # NullPayload /\ http.user.role \in {"user", "admin"})

\* an identity of role user was refused by requireRole('admin')
C19_Witness ==
    /\ http.ran = "requireRole" /\ http.roles = {"admin"}
    /\ http.userBefore.role = "user"
    /\ http.res.status = 403 /\ http.next = 0

\* C20: optionalAuth sends no response and calls next() once for every
\* request; the identity on the request afterwards is the one authenticateToken
\* attaches for the same header at the same instant, and none when
\* authenticateToken rejects.
C20_OptionalAuth ==
    http.ran = "optionalAuth" =>
        LET strict == authenticateToken([header |-> http.header, user |-> NullPayload], http.at)
        IN  /\ http.res = NoResponse /\ http.next = 1
            /\ strict.next = 1 => http.user = strict.user
            /\ strict.next = 0 => http.user = NullPayload
            /\ http.carries = NoToken => http.user = NullPayload

\* a request with a forged token went through optionalAuth with no identity
C20_Witness ==
    /\ http.ran = "optionalAuth" /\ http.carries = Forged
    /\ http.next = 1 /\ http.res = NoResponse /\ http.user = NullPayload

\* C21: a profile request that got through authenticateToken and whose select
\* did not fail answers 200 with the row users holds for the userId of its
\* token at that moment, the password left out, and 404 'User not found' when
\* no row has that id, although the token verified; no step of a profile
\* request changes users or the Ledger.
C21_Profile ==
    [][/\ (last' # last /\ last'.op = "profile" /\ last'.resp.status \in {200, 404, 500}) =>
             /\ last'.token.secret = JWT_SECRET
             /\ last'.resp # ProfileFailed =>
                   /\ \A u \in users : u.id = last'.token.userId =>
                                          last'.resp = ProfileResponse(SafeUser(u))
                   /\ (~\E u \in users : u.id = last'.token.userId) =>
                          last'.resp = Response(404, "User not found")
       /\ (\E r \in Req : req'[r] # req[r] /\ "profile" \in {req[r].op, req'[r].op}) =>
             (users' = users /\ ledger' = ledger)]_vars

\* the user of an access token that still verifies was deleted, and profile answered 404
C21_Witness ==
    /\ last.op = "profile" /\ last.resp = Response(404, "User not found")
    /\ verifyAccessToken(last.token, now) # NullPayload
    /\ users = {} /\ nextUserId > 1

\* C22: no response carries a password hash.  The user object of a register,
\* login or profile that answers 201/200 has every field of the stored row of
\* that user but the password (isActive as the handler read it), a response
\* of refresh carries no user object, and neither does any error response.
C22_NoPasswordHash ==
    [][last' # last =>
          /\ "password" \notin DOMAIN last'.resp.user
          /\ (last'.op \in {"register", "login", "profile"} /\ Succeeded(last')) =>
                \E u \in users' :
                   /\ u.id = last'.userId
                   /\ DOMAIN last'.resp.user = DOMAIN u \ {"password"}
                   /\ \A f \in DOMAIN last'.resp.user \ {"isActive"} : last'.resp.user[f] = u[f]
          /\ last'.op = "refresh" => last'.resp.user = NoSafeUser
          /\ ~Succeeded(last') => last'.resp.user = NoSafeUser]_vars

\* a login has answered 200 with the user whose stored row holds a bcrypt hash
C22_Witness ==
    /\ last.op = "login" /\ Succeeded(last)
    /\ \E u \in users : u.id = last.resp.user.id /\ u.password = bcryptHash(PasswordA)
    /\ last.resp.user.email = EmailA

\* C23: every request to register, login, refresh, profile or logout that
\* ends, ends with a response, a storage failure at any step included; a
\* response that is no success is { success: false, error, details? } with a
\* message and with neither user nor tokens; a 500 carries one of the fixed
\* messages, and details only from errorHandler in development mode; details
\* are otherwise those of a body validation (400) only.
GenericErrors == {"Failed to register user", "Failed to login", "Failed to refresh token",
                  "Failed to get profile", "Failed to logout", "Internal Server Error"}
C23_FailuresAnswered ==
    [][/\ \A r \in Req :
             (req[r].pc # "idle" /\ req'[r].pc = "idle") =>
                 (last'.op = req[r].op /\ last'.resp.status # 0)
       /\ last' # last =>
             /\ last'.resp.status \in {200, 201, 400, 401, 403, 404, 500}
             /\ ~Succeeded(last') =>
                   /\ last'.resp.error # ""
                   /\ last'.resp.user = NoSafeUser
                   /\ last'.resp.accessToken = NoToken /\ last'.resp.refreshToken = NoToken
             /\ last'.resp.status = 500 =>
                   /\ last'.resp.error \in GenericErrors
                   /\ last'.resp.details # "" =>
                         (last'.nodeEnv = "development"
                             /\ last'.resp.error = "Internal Server Error")
             /\ last'.resp.details # "" =>
                   (last'.resp = ValidationFailed \/ last'.resp.status = 500)]_vars

\* the insert of the Ledger row of a rotation failed after the old row was
\* deleted, and the refresh answered 500 'Failed to refresh token'
C23_Witness ==
    /\ last.op = "refresh" /\ last.deleted # 0 /\ last.inserted = 0
    /\ last.resp = Response(500, "Failed to refresh token")

\* C24: in every reachable state no two rows of the Ledger hold the same token
\* string.
C24_OneRowPerToken ==
    \A a \in ledger, b \in ledger : a.token = b.token => a = b

\* two rows of the same user stand in the Ledger after a login
C24_Witness ==
    /\ last.op = "login" /\ Succeeded(last)
    /\ \E a \in ledger, b \in ledger : a.id # b.id /\ a.userId = b.userId

\* C25: a token string whose Ledger row has been removed (by rotation, logout
\* or lazy expiry) is never the token of a row inserted later, by a login, a
\* register or a refresh, in the same clock second or at any other time.
Removed == {t \in known : ~\E row \in ledger : row.token = t}
C25_RemovedIsTerminal ==
    [][\A row \in ledger' : row \notin ledger => row.token \notin Removed]_vars

\* C26: whenever a register, login or refresh comes to insert its Ledger row,
\* the refresh token it generated differs from the token of every row in the
\* Ledger, two issuances for one user in the same clock second included.
C26_NoCollision ==
    [][\A r \in Req :
          (req[r].pc = "insertToken" /\ req'[r].pc = "idle") =>
              ~\E row \in ledger : row.token = req[r].refreshToken]_vars

\* C27: a refresh goes through verification, Ledger lookup, Ledger-expiry
\* check, user lookup and rotation in this order.  A token that fails
\* verification (its body having reached the handler) is answered 403 'Invalid
\* refresh token' in the step that accepts the request, before any storage
\* call; and the steps up to and
\* including the user lookup change neither the Ledger nor the users, so a
\* refresh that fails at one of them leaves both as they were.
Untouched == users' = users /\ ledger' = ledger
C27_RefreshOrder ==
    [][/\ \A r \in Req :
             (req[r].pc # req'[r].pc /\ "refresh" \in {req[r].op, req'[r].op}) =>
                 /\ req[r].pc = "idle" =>
                       (req'[r].pc = "findToken" /\ req'[r].sawVerified /\ Untouched)
                 /\ req[r].pc = "findToken" =>
                       /\ req'[r].pc \in {"deleteExpired", "findUser", "idle"}
                       /\ req'[r].pc = "deleteExpired" => now > req'[r].storedToken.expiresAt
                       /\ req'[r].pc = "findUser" => now <= req'[r].storedToken.expiresAt
                       /\ Untouched
                 /\ req[r].pc = "deleteExpired" => req'[r].pc = "idle"
                 /\ req[r].pc = "findUser" => (req'[r].pc \in {"deleteOld", "idle"} /\ Untouched)
                 /\ req[r].pc = "deleteOld" => req'[r].pc \in {"insertToken", "idle"}
                 /\ req[r].pc = "insertToken" => req'[r].pc = "idle"
       /\ (last' # last /\ last'.op = "refresh" /\ last'.nodeEnv = "" /\ ~last'.sawVerified) =>
             (last'.resp = InvalidToken /\ req' = req /\ Untouched)]_vars

\* a forged token was refused on arrival while the Ledger held rows
C27_Witness ==
    /\ last.op = "refresh" /\ last.token = Forged /\ ~last.sawVerified
    /\ last.resp = InvalidToken /\ ledger # {}

\* C28: a refresh that comes to its user lookup (its token verified and had a
\* live Ledger row) when no user has the userId of the token answers 403
\* 'User not found' (a storage failure, 500, aside), hands out no token and
\* changes neither the Ledger nor the users; and a refresh that arrives when
\* no user has the userId of its token never hands out a token or inserts a row.
C28_DeletedUser ==
    [][/\ \A r \in Req :
             (/\ req[r].op = "refresh" /\ req[r].pc = "findUser" /\ req'[r].pc # "findUser"
              /\ ~\E u \in users : u.id = req[r].payload.userId) =>
                 /\ req'[r].pc = "idle"
                 /\ last'.resp \in {Response(403, "User not found"), RefreshFailed}
                 /\ last'.resp.accessToken = NoToken /\ last'.resp.refreshToken = NoToken
                 /\ last'.inserted = 0
                 /\ Untouched
       /\ (last' # last /\ last'.op = "refresh" /\ last'.ownerGone) =>
             /\ ~Succeeded(last')
             /\ last'.resp.accessToken = NoToken /\ last'.resp.refreshToken = NoToken
             /\ last'.inserted = 0]_vars

\* the user was deleted between the Ledger lookup and the user lookup of a
\* refresh, which answered 403 'User not found'
C28_Witness ==
    /\ last.op = "refresh" /\ last.sawVerified /\ last.sawLive /\ ~last.ownerGone
    /\ last.resp = Response(403, "User not found")
    /\ users = {}

\* C29: while the process runs with a JWT_REFRESH_EXPIRES_IN that
\* getTokenExpirationTime cannot read, no request is carried out: no user row
\* is inserted, no Ledger row is inserted or deleted, and no response hands out
\* a token.
Misconfigured == ~DurationMatches(env.JWT_REFRESH_EXPIRES_IN)
C29_FatalAtStartup ==
    [][(Misconfigured /\ env' = env) =>
          /\ users' = users
          /\ ledger' = ledger
          /\ last' # last =>
                (last'.resp.accessToken = NoToken /\ last'.resp.refreshToken = NoToken)]_vars

\* C30: a login or a refresh that has read the row of its user goes on to
\* issue tokens only if that row says isActive, whether the refresh token was
\* issued while the user was active or not.  (Accounts change between requests
\* only, so the row read is the row as it was when the request arrived.)
C30_ActiveOnIssuance ==
    [][\A r \in Req :
          (/\ req'[r].op \in {"login", "refresh"}
           /\ req[r].user = NoUser /\ req'[r].user # NoUser) =>
              req'[r].user.isActive]_vars

\* C31: whether authenticateToken lets a request through depends on the token
\* of the header and the clock alone: in every state of the users and the
\* Ledger, a profile request passes the middleware, with the payload of its
\* token as identity, exactly when the token verifies under the access secret
\* at that instant, and is answered 401 or 403 by the middleware otherwise.
C31_AuthenticateStateless ==
    [][/\ \A r \in Req :
             (req[r].pc = "idle" /\ req'[r].op = "profile") =>
                 /\ jwtVerifyOk(req'[r].token, JWT_SECRET, now)
                 /\ req'[r].payload = PayloadOf(req'[r].token)
       /\ (last' # last /\ last'.op = "profile" /\ \A r \in Req : req[r].op # "profile") =>
             /\ ~jwtVerifyOk(last'.token, JWT_SECRET, now)
             /\ last'.resp \in {AccessTokenRequired, InvalidOrExpired}]_vars

\* an access token was accepted after its refresh token was logged out, the
\* Ledger was empty and its user had been deactivated
C31_Witness ==
    /\ last.op = "profile" /\ last.resp.status = 200
    /\ ~last.resp.user.isActive
    /\ ledger = {} /\ revoked # {}

\* C32: a refresh signs its new pair from the users row it selects: when the
\* handler goes on from the user lookup to the rotation, the access token and
\* the refresh token it holds carry the id, email and role of the row stored at
\* that instant, whatever the payload of the presented token says, and the
\* 200 answer hands out that pair.
C32_RefreshReadsStore ==
    [][/\ \A r \in Req :
             (req[r].op = "refresh" /\ req[r].pc = "findUser" /\ req'[r].pc = "deleteOld") =>
                 \E u \in users :
                    /\ u.id = req[r].payload.userId
                    /\ \A t \in {req'[r].accessToken, req'[r].refreshToken} :
                          t.userId = u.id /\ t.email = u.email /\ t.role = u.role
       /\ \A r \in Req :
             (req[r].op = "refresh" /\ req[r].pc = "insertToken"
              /\ last' # last /\ Succeeded(last')) =>
                 /\ last'.resp.accessToken = req[r].accessToken
                 /\ last'.resp.refreshToken = req[r].refreshToken]_vars

\* a refresh answered 200 with tokens that carry another email than the token
\* it was given
C32_Witness ==
    /\ last.op = "refresh" /\ last.resp.status = 200
    /\ last.resp.accessToken.email # last.token.email
    /\ last.resp.refreshToken.email # last.token.email
    /\ \E u \in users : u.email = last.resp.refreshToken.email

\* C33: every Ledger row is bound to the user its token names: the userId of
\* the row is the userId in the payload of the row's token. A refresh that
\* answers 200 therefore hands its new pair to the owner of the row it rotated,
\* and binds the row it inserts to that owner.
C33_OwnerBinding ==
    [][/\ \A row \in ledger' : row.userId = row.token.userId
       /\ \A r \in Req :
             (req[r].op = "refresh" /\ req[r].pc = "insertToken"
              /\ last' # last /\ Succeeded(last')) =>
                 /\ last'.resp.accessToken.userId = req[r].storedToken.userId
                 /\ last'.resp.refreshToken.userId = req[r].storedToken.userId
                 /\ \E row \in ledger' \ ledger :
                       row.userId = req[r].storedToken.userId]_vars

\* a refresh has rotated a row and the row it inserted is in the Ledger, bound
\* to the user of the presented token
C33_Witness ==
    /\ last.op = "refresh" /\ Succeeded(last) /\ last.deleted # 0
    /\ \E row \in ledger : row.id = last.inserted /\ row.userId = last.token.userId

\* C34: a login that is answered anything but 200 (the three 401 failures
\* among them) leaves the users and the Ledger as they were, and so does the
\* lookup of a login that goes on; a login answered 200 adds exactly one
\* Ledger row, which holds the refresh token it hands out, and leaves every
\* row the Ledger had and every user as they were.
C34_LoginFrame ==
    [][/\ (last' # last /\ last'.op = "login" /\ ~Succeeded(last')) => Untouched
       /\ \A r \in Req : (Free(r) /\ req'[r].op = "login") => Untouched
       /\ \A r \in Req :
             (req[r].op = "login" /\ req[r].pc = "insertToken"
              /\ last' # last /\ Succeeded(last')) =>
                 /\ users' = users
                 /\ ledger \subseteq ledger'
                 /\ Cardinality(ledger' \ ledger) = 1
                 /\ \A row \in ledger' \ ledger :
                       /\ row.token = last'.resp.refreshToken
                       /\ row.userId = last'.userId]_vars

\* after a 200 login the user holds two refresh tokens that are both live,
\* the one of the login and an older one
C34_Witness ==
    /\ last.op = "login" /\ last.resp.status = 200
    /\ \E old \in ledger, new \in ledger :
          /\ new.id = last.inserted /\ old.id < new.id
          /\ old.userId = new.userId /\ old.token # new.token
          /\ ~LedgerExpired(old, now) /\ ~LedgerExpired(new, now)

\* C35: a register that answers an error (400 or 500) has created no user:
\* the row its handler inserted, if it inserted one, is not among the users
\* when the error is answered, and it has inserted no Ledger row.
C35_RegisterAtomic ==
    [][\A r \in Req :
          (req[r].op = "register" /\ Free(r)' /\ last' # last /\ ~Succeeded(last')) =>
              /\ req[r].user = NoUser \/ req[r].user \notin users'
              /\ ledger' = ledger]_vars

\* C36: the two kinds of token do not stand in for one another. A token signed
\* with the refresh secret never passes authenticateToken: the profile request
\* that carries it is answered 403 InvalidOrExpired by the middleware. A token
\* signed with the access secret never passes the verification of refresh: the
\* request is answered 403 InvalidToken on arrival, before any Ledger lookup,
\* and nothing is changed.
C36_NotInterchangeable ==
    [][/\ JWT_SECRET # JWT_REFRESH_SECRET
       /\ \A r \in Req :
             (Free(r) /\ req'[r].op = "profile") => req'[r].token.secret # JWT_REFRESH_SECRET
       /\ (last' # last /\ last'.op = "profile"
           /\ last'.token.kind = "jwt" /\ last'.token.secret = JWT_REFRESH_SECRET) =>
             (last'.resp = InvalidOrExpired /\ req' = req /\ Untouched)
       /\ \A r \in Req :
             (Free(r) /\ req'[r].op = "refresh") => req'[r].token.secret # JWT_SECRET
       /\ (last' # last /\ last'.op = "refresh"
           /\ last'.token.kind = "jwt" /\ last'.token.secret = JWT_SECRET) =>
             (last'.resp = InvalidToken /\ req' = req /\ Untouched)]_vars

\* a refresh token that is live in the Ledger and verifies under the refresh
\* secret was presented to authenticateToken and refused
C36_Witness ==
    /\ last.op = "profile" /\ last.resp = InvalidOrExpired
    /\ jwtVerifyOk(last.token, JWT_REFRESH_SECRET, now)
    /\ \E row \in ledger : row.token = last.token /\ ~LedgerExpired(row, now)

\* C37: authenticateToken lets a request through only for a token under the
\* Bearer scheme: when the first word of the Authorization header is not
\* Bearer, or the header has no second part, it attaches no identity and does
\* not call next(), also when the second part is a valid access token.
BearerScheme(header) ==
    /\ header.present /\ header.text # <<>>
    /\ split(header.text)[1] = <<Word("Bearer")>>
C37_BearerOnly ==
    (http.ran = "authenticateToken"
     /\ ~(BearerScheme(http.header) /\ BearerToken(http.header) # <<>>)) =>
        (http.user = NullPayload /\ http.next = 0)

\* C38: of the registers that run at once for one email, the one that comes
\* to its insert after another has created the user answers 400 DuplicateEmail;
\* it creates no second user with the email and inserts no Ledger row.
C38_RaceLoserDuplicate ==
    [][\A r \in Req :
          (req[r].op = "register" /\ req[r].pc = "insertUser" /\ EmailTaken(req[r].email)
           /\ req'[r].pc # "insertUser") =>
              /\ Free(r)' /\ last'.resp = DuplicateEmail
              /\ Untouched]_vars

=============================================================================
